---- MODULE Spec2Model ----
(***************************************************************************)
(* The PennApps prompt-optimizer server (server/db.js, server/index.js):   *)
(* the users and optimizations tables of the SQLite database, and one     *)
(* action per Express handler.  A handler that awaits (signup awaits the   *)
(* bcrypt hash between its SELECT and its INSERT) is one action per       *)
(* synchronous section, since the event loop may run other handlers at     *)
(* the await.                                                              *)
(*                                                                         *)
(* Numbers.  A JavaScript number that counts tokens is held as an integer  *)
(* number of 1/Resolution, so that the fractional JSON numbers a client    *)
(* may send are values of the model.  Energy is held in units of           *)
(* 1/(Resolution * 10^7) kWh and CO2 in units of 1/(Resolution * 10^9) kg, *)
(* which makes every product of the handlers exact; a quotient is a        *)
(* reduced fraction.  Infinity and NaN token counts are outside the model.  *)
(*                                                                         *)
(* Strings are sequences of characters.                                    *)
(*                                                                         *)
(* The browser (src/components/OptimizeTab.jsx, StatsTab.jsx): the state   *)
(* of one mounted instance of each component, its timers and its fetches   *)
(* in flight.  A callback that awaits is one action per synchronous        *)
(* section.  The server's actions leave the browser's state alone, and     *)
(* each specification says so in its next-state relation.                  *)
(***************************************************************************)
EXTENDS Integers, Sequences, FiniteSets, TLC

VARIABLES
    users,          \* the rows of table users, in rowid order
    optimizations,  \* the rows of table optimizations, in rowid order
    pending,        \* signup requests suspended at `await bcrypt.hash`
    last,           \* the latest handler step: the request and what was answered
    gridEnv,        \* process.env.GRID_KGCO2_PER_KWH
    \* OptimizeTab
    messages,       \* the chat: a sequence of { text, sender }
    input,          \* the text field
    isTyping,
    tokensBefore,
    tokensAfter,
    co2SavedKg,
    triggerCount,
    timers,         \* the pending callbacks of handleSend's setTimeout, oldest first
    resets,         \* the number of pending setTriggerCount(false) timeouts
    requests,       \* the POST /api/optimize fetches in flight, oldest first
    \* StatsTab
    stats,
    loading,
    mounted,        \* the effect's `let mounted`
    loads           \* the calls of load() suspended at an await, oldest first

server == <<users, optimizations, pending, last, gridEnv>>

optimizeTab == <<messages, input, isTyping, tokensBefore, tokensAfter, co2SavedKg,
                 triggerCount, timers, resets, requests>>

statsTab == <<stats, loading, mounted, loads>>

vars == <<server, optimizeTab, statsTab>>

(***************************************************************************)
(* Bounds of the model.                                                    *)
(***************************************************************************)
MaxUsers == 1
MaxOptimizations == 2
MaxPending == 2
Resolution == 2
MaxMessages == 4
MaxLoads == 2

(***************************************************************************)
(* Constants of the program.                                               *)
(***************************************************************************)
\* Math.ceil(trimmed.length / 4)
CharsPerToken == 4
\* kwh_per_token = 0.0003 / 1000, in units of 10^-7 kWh
KwhPerTokenE7 == 3
\* the default grid intensity 0.45 kgCO2/kWh, in hundredths
DefaultGridCenti == 45
\* the fallback reduction Math.floor(tb * 0.2), in tenths
ReductionTenths == 2

\* OptimizeTab: Math.max(10, Math.floor(originalLen * 0.75))
MinTargetLen == 10
KeepPercent == 75

(***************************************************************************)
(* JavaScript values.                                                      *)
(***************************************************************************)
Undefined == [t |-> "undefined"]
Null == [t |-> "null"]
NaN == [t |-> "NaN"]
Str(s) == [t |-> "string", v |-> s]
Num(n) == [t |-> "number", v |-> n]

\* !x
Falsy(x) ==
    \/ x.t \in {"undefined", "null", "NaN"}
    \/ (x.t = "string" /\ Len(x.v) = 0)
    \/ (x.t = "number" /\ x.v = 0)

\* typeof x === 'number'
IsNumber(x) == x.t = "number"

\* the JavaScript number k, an integer
JsInt(k) == k * Resolution

Max(a, b) == IF a >= b THEN a ELSE b

\* Math.ceil(a / b) for a >= 0, b > 0
CeilDiv(a, b) == (a + b - 1) \div b

RECURSIVE Gcd(_, _)
Gcd(a, b) == IF b = 0 THEN a ELSE Gcd(b, a % b)

\* a / b for b > 0, as a reduced fraction
Quotient(a, b) ==
    LET g == Gcd(IF a < 0 THEN -a ELSE a, b)
    IN  [num |-> a \div g, den |-> b \div g]

(***************************************************************************)
(* estimateTokens                                                          *)
(***************************************************************************)
\* the characters \s matches
IsSpace(c) == c \in {" ", "\t"}

RECURSIVE DropSpaces(_)
DropSpaces(s) ==
    IF s # << >> /\ IsSpace(Head(s)) THEN DropSpaces(Tail(s)) ELSE s

\* text.replace(/\s+/g, ' ')
RECURSIVE ReplaceWhitespace(_)
ReplaceWhitespace(s) ==
    IF s = << >> THEN << >>
    ELSE IF IsSpace(Head(s)) THEN <<" ">> \o ReplaceWhitespace(DropSpaces(Tail(s)))
    ELSE <<Head(s)>> \o ReplaceWhitespace(Tail(s))

RECURSIVE DropTrailingSpaces(_)
DropTrailingSpaces(s) ==
    IF s # << >> /\ IsSpace(s[Len(s)])
    THEN DropTrailingSpaces(SubSeq(s, 1, Len(s) - 1))
    ELSE s

\* s.trim()
Trim(s) == DropTrailingSpaces(DropSpaces(s))

\* an estimate of the trimmed text, its whitespace runs left as they are
estimateTokensUncollapsed(text) ==
    IF Falsy(text) THEN JsInt(0)
    ELSE LET trimmed == Trim(text.v)
         IN  IF Len(trimmed) = 0 THEN JsInt(0)
             ELSE JsInt(Max(1, CeilDiv(Len(trimmed), CharsPerToken)))

estimateTokens(text) ==
    IF Falsy(text) THEN JsInt(0)
    ELSE LET trimmed == Trim(ReplaceWhitespace(text.v))
         IN  IF Len(trimmed) = 0 THEN JsInt(0)
             ELSE JsInt(Max(1, CeilDiv(Len(trimmed), CharsPerToken)))

(***************************************************************************)
(* Cookies, session tokens and password hashes.                            *)
(***************************************************************************)
\* no cookie named token in the request
NoToken == [kind |-> "none"]

\* jwt.sign({ id, email }, JWT_SECRET, { expiresIn: '7d' })
createToken(user) == [kind |-> "valid", id |-> user.id, email |-> user.email]

\* a verification that reads the payload of a JWT past its expiry
JwtVerifiesIgnoringExpiry(token) == token.kind \in {"valid", "expired"}

\* jwt.verify(token, JWT_SECRET): the payload, or a throw (bad signature,
\* not a JWT, past its expiry)
JwtVerifies(token) == token.kind = "valid"

\* what a response does to the cookie named token
NoCookie == [set |-> "none"]
SetCookie(token) == [set |-> "token", token |-> token]
ClearCookie == [set |-> "clear"]

\* bcrypt.hash(password, 10)
BcryptHash(password) == [alg |-> "bcrypt", of |-> password]

\* bcrypt.compare(password, hash)
BcryptCompare(password, hash) == hash.of = password

(***************************************************************************)
(* The database.                                                           *)
(***************************************************************************)
\* INTEGER PRIMARY KEY AUTOINCREMENT: no row is ever deleted, so the next
\* rowid is one more than the number of rows
NextRowid(table) == Len(table) + 1

\* a number bound to a column of INTEGER affinity is stored as an INTEGER
\* when it has no fractional part and is kept as a REAL otherwise
IntegerAffinity(n) ==
    [cls |-> IF n % Resolution = 0 THEN "INTEGER" ELSE "REAL", v |-> n]

\* a number bound to a column of REAL affinity
RealAffinity(n) == [cls |-> "REAL", v |-> n]

\* db.prepare('SELECT ... FROM users WHERE email = ?').get(email)
SelectUserByEmail(email) ==
    LET hits == {i \in 1..Len(users) : users[i].email = email}
    IN  IF hits = {} THEN Undefined
        ELSE [t |-> "object", row |-> users[CHOOSE i \in hits : TRUE]]

\* db.prepare('SELECT id, email FROM users WHERE id = ?').get(id)
SelectUserById(id) ==
    LET hits == {i \in 1..Len(users) : users[i].id = id}
    IN  IF hits = {} THEN Undefined
        ELSE LET r == users[CHOOSE i \in hits : TRUE]
             IN  [t |-> "object", row |-> [id |-> r.id, email |-> r.email]]

\* SELECT COUNT(*) as cnt FROM <table>
CountRows(table) == Len(table)

RECURSIVE SumCo2OfUsersFrom(_)
SumCo2OfUsersFrom(i) ==
    IF i > Len(optimizations) THEN 0
    ELSE (IF optimizations[i].user_id = Null THEN 0
          ELSE optimizations[i].co2_saved_kg.v) + SumCo2OfUsersFrom(i + 1)

\* a sum that joins the users table, and so leaves the anonymous rows out
SelectSumCo2Joined == SumCo2OfUsersFrom(1)

RECURSIVE SumCo2From(_)
SumCo2From(i) ==
    IF i > Len(optimizations) THEN 0
    ELSE optimizations[i].co2_saved_kg.v + SumCo2From(i + 1)

\* SELECT IFNULL(SUM(co2_saved_kg), 0) as total FROM optimizations
SelectSumCo2 == SumCo2From(1)

\* the latest handler step: status 0 stands for a request that has not been
\* answered yet
Step(op, req, status, body, cookie) ==
    [op |-> op, req |-> req, status |-> status, body |-> body, cookie |-> cookie]

Message(m) == [message |-> m]

(***************************************************************************)
(* getUserFromToken                                                        *)
(***************************************************************************)
getUserFromToken(token) ==
    IF token.kind = "none" THEN Null
    ELSE IF ~JwtVerifies(token) THEN Null
    ELSE LET row == SelectUserById(token.id)
         IN  IF Falsy(row) THEN Null ELSE row

(***************************************************************************)
(* POST /api/auth/signup                                                   *)
(***************************************************************************)
\* a signup that overwrites the row of an email already in use
SignupBeginUpsert(email, password) ==
    LET req == [email |-> email, password |-> password]
        hits == IF Falsy(email) THEN {}
                ELSE {i \in 1..Len(users) : users[i].email = email.v}
    IN  IF Falsy(email) \/ Falsy(password)
        THEN /\ last' = Step("signup", req, 400, Message("Email and password required"), NoCookie)
             /\ UNCHANGED <<users, optimizations, pending, gridEnv>>
        ELSE IF hits # {}
        THEN /\ users' = [i \in 1..Len(users) |->
                            IF i \in hits
                            THEN [users[i] EXCEPT !.password_hash = BcryptHash(password.v)]
                            ELSE users[i]]
             /\ last' = Step("signup", req, 409, Message("Email already in use"), NoCookie)
             /\ UNCHANGED <<optimizations, pending, gridEnv>>
        ELSE /\ Cardinality(pending) < MaxPending
             /\ req \notin pending
             /\ pending' = pending \cup {req}
             /\ last' = Step("signup", req, 0, Undefined, NoCookie)
             /\ UNCHANGED <<users, optimizations, gridEnv>>

\* the handler up to `await bcrypt.hash`
SignupBegin(email, password) ==
    LET req == [email |-> email, password |-> password]
    IN  IF Falsy(email) \/ Falsy(password)
        THEN /\ last' = Step("signup", req, 400, Message("Email and password required"), NoCookie)
             /\ UNCHANGED <<users, optimizations, pending, gridEnv>>
        ELSE IF ~Falsy(SelectUserByEmail(email.v))
        THEN /\ last' = Step("signup", req, 409, Message("Email already in use"), NoCookie)
             /\ UNCHANGED <<users, optimizations, pending, gridEnv>>
        ELSE /\ Cardinality(pending) < MaxPending
             /\ req \notin pending
             /\ pending' = pending \cup {req}
             /\ last' = Step("signup", req, 0, Undefined, NoCookie)
             /\ UNCHANGED <<users, optimizations, gridEnv>>

\* INSERT INTO users (email, password_hash): email is UNIQUE, and the
\* statement throws when a row holds the email already
InsertUserThrows(email) == \E i \in 1..Len(users) : users[i].email = email

\* the handler from the resumption after `await bcrypt.hash`
SignupFinish(req) ==
    /\ req \in pending
    /\ pending' = pending \ {req}
    /\ IF InsertUserThrows(req.email.v)
       THEN /\ last' = Step("signup-resumed", req, 500, Message("Server error"), NoCookie)
            /\ UNCHANGED <<users, optimizations, gridEnv>>
       ELSE /\ Len(users) < MaxUsers
            /\ LET user == [id |-> NextRowid(users), email |-> req.email.v]
               IN  /\ users' = Append(users,
                                 [id |-> user.id, email |-> user.email,
                                  password_hash |-> BcryptHash(req.password.v)])
                   /\ last' = Step("signup-resumed", req, 200, [user |-> user],
                                   SetCookie(createToken(user)))
            /\ UNCHANGED <<optimizations, gridEnv>>

(***************************************************************************)
(* POST /api/auth/login                                                    *)
(***************************************************************************)
\* a login that tells an unknown email from a wrong password
LoginResponseUnknownEmail(email, password) ==
    IF Falsy(email) \/ Falsy(password)
    THEN [status |-> 400, body |-> Message("Email and password required"), cookie |-> NoCookie]
    ELSE LET row == SelectUserByEmail(email.v)
         IN  IF Falsy(row)
             THEN [status |-> 404, body |-> Message("No such user"), cookie |-> NoCookie]
             ELSE IF ~BcryptCompare(password.v, row.row.password_hash)
             THEN [status |-> 401, body |-> Message("Invalid credentials"), cookie |-> NoCookie]
             ELSE LET user == [id |-> row.row.id, email |-> row.row.email]
                  IN  [status |-> 200, body |-> [user |-> user],
                       cookie |-> SetCookie(createToken(user))]

\* the status, body and cookie of the answer.  The handler writes nothing,
\* and the row it compares against was read before its await: the answer is
\* a function of the table at the SELECT.
LoginResponse(email, password) ==
    IF Falsy(email) \/ Falsy(password)
    THEN [status |-> 400, body |-> Message("Email and password required"), cookie |-> NoCookie]
    ELSE LET row == SelectUserByEmail(email.v)
         IN  IF Falsy(row)
             THEN [status |-> 401, body |-> Message("Invalid credentials"), cookie |-> NoCookie]
             ELSE IF ~BcryptCompare(password.v, row.row.password_hash)
             THEN [status |-> 401, body |-> Message("Invalid credentials"), cookie |-> NoCookie]
             ELSE LET user == [id |-> row.row.id, email |-> row.row.email]
                  IN  [status |-> 200, body |-> [user |-> user],
                       cookie |-> SetCookie(createToken(user))]

Login(email, password) ==
    LET r == LoginResponse(email, password)
    IN  /\ last' = Step("login", [email |-> email, password |-> password],
                        r.status, r.body, r.cookie)
        /\ UNCHANGED <<users, optimizations, pending, gridEnv>>

(***************************************************************************)
(* GET /api/auth/me, POST /api/auth/logout, GET /api/health                *)
(***************************************************************************)
Me(token) ==
    LET user == getUserFromToken(token)
    IN  /\ last' = Step("me", [token |-> token], 200,
                        [user |-> IF Falsy(user) THEN Null ELSE user], NoCookie)
        /\ UNCHANGED <<users, optimizations, pending, gridEnv>>

Logout ==
    /\ last' = Step("logout", Undefined, 200, [ok |-> TRUE], ClearCookie)
    /\ UNCHANGED <<users, optimizations, pending, gridEnv>>

Health ==
    /\ last' = Step("health", Undefined, 200, [ok |-> TRUE], NoCookie)
    /\ UNCHANGED <<users, optimizations, pending, gridEnv>>

(***************************************************************************)
(* POST /api/optimize                                                      *)
(***************************************************************************)
\* parseFloat(process.env.GRID_KGCO2_PER_KWH), in hundredths: the variable
\* is unset, or holds the decimal text of a number of hundredths
ParseFloatEnv(value) ==
    IF value.t = "undefined" THEN NaN ELSE Num(value.centi)

\* parseFloat(process.env.GRID_KGCO2_PER_KWH) || 0.45
GRID_KGCO2_PER_KWH ==
    LET parsed == ParseFloatEnv(gridEnv)
    IN  IF Falsy(parsed) THEN DefaultGridCenti ELSE parsed.v

\* a reduction that is rounded up
CeilOfReduction(tb) == JsInt(CeilDiv(tb * ReductionTenths, 10 * Resolution))

\* Math.floor(tb * 0.2)
FloorOfReduction(tb) == JsInt((tb * ReductionTenths) \div (10 * Resolution))

\* const tb = typeof tokens_before === 'number' ? tokens_before : estimateTokens(prompt)
TokensBefore(body) ==
    IF IsNumber(body.tokens_before) THEN body.tokens_before.v
    ELSE estimateTokens(body.prompt)

\* const ta = typeof tokens_after === 'number' ? tokens_after : (optimized_prompt ? ... : ...)
TokensAfter(body, tb) ==
    IF IsNumber(body.tokens_after) THEN body.tokens_after.v
    ELSE IF ~Falsy(body.optimized_prompt) THEN estimateTokens(body.optimized_prompt)
    ELSE Max(0, tb - Max(0, FloorOfReduction(tb)))

\* a difference that is not clamped at 0
TokensSavedUnclamped(tb, ta) == tb - ta

\* const tokens_saved = Math.max(0, tb - ta)
TokensSaved(tb, ta) == Max(0, tb - ta)

\* const kwh_saved = tokens_saved * kwh_per_token
KwhSaved(tokens_saved) == tokens_saved * KwhPerTokenE7

\* const co2_saved_kg = kwh_saved * GRID_KGCO2_PER_KWH
Co2SavedKg(kwh_saved) == kwh_saved * GRID_KGCO2_PER_KWH

\* const user_id = user ? user.id : null
UserIdOf(token) ==
    LET user == getUserFromToken(token)
    IN  IF Falsy(user) THEN Null ELSE [t |-> "id", v |-> user.row.id]

\* the row of stmt.run(user_id, prompt, optimized_prompt || '', tb, ta, tokens_saved, co2_saved_kg)
InsertedOptimization(body, token) ==
    LET tb == TokensBefore(body)
        ta == TokensAfter(body, tb)
        tokens_saved == TokensSaved(tb, ta)
    IN  [id |-> NextRowid(optimizations),
         user_id |-> UserIdOf(token),
         prompt |-> body.prompt.v,
         optimized_prompt |-> IF Falsy(body.optimized_prompt) THEN << >>
                              ELSE body.optimized_prompt.v,
         tokens_before |-> IntegerAffinity(tb),
         tokens_after |-> IntegerAffinity(ta),
         tokens_saved |-> IntegerAffinity(tokens_saved),
         co2_saved_kg |-> RealAffinity(Co2SavedKg(KwhSaved(tokens_saved)))]

\* the body of res.json({ id: info.lastInsertRowid, user_id, tokens_before: tb, ... })
OptimizeBody(body, token) ==
    LET tb == TokensBefore(body)
        ta == TokensAfter(body, tb)
        tokens_saved == TokensSaved(tb, ta)
        kwh_saved == KwhSaved(tokens_saved)
    IN  [id |-> NextRowid(optimizations),
         user_id |-> UserIdOf(token),
         tokens_before |-> tb,
         tokens_after |-> ta,
         tokens_saved |-> tokens_saved,
         kwh_saved |-> kwh_saved,
         co2_saved_kg |-> Co2SavedKg(kwh_saved)]

\* a test that takes the empty string for a prompt
PromptUndefined(body) == body.prompt.t = "undefined"

\* if (!prompt) return res.status(400)
PromptMissing(body) == Falsy(body.prompt)

\* a handler that answers with the row of an identical earlier request
\* instead of adding one
OptimizeDeduplicating(body, token) ==
    LET req == [body |-> body, token |-> token]
        row == InsertedOptimization(body, token)
        same == {i \in 1..Len(optimizations) :
                    [optimizations[i] EXCEPT !.id = row.id] = row}
    IN  IF PromptMissing(body)
        THEN /\ last' = Step("optimize", req, 400, Message("prompt required"), NoCookie)
             /\ UNCHANGED <<users, optimizations, pending, gridEnv>>
        ELSE IF same # {}
        THEN /\ last' = Step("optimize", req, 200,
                             [OptimizeBody(body, token) EXCEPT !.id = CHOOSE i \in same : TRUE],
                             NoCookie)
             /\ UNCHANGED <<users, optimizations, pending, gridEnv>>
        ELSE /\ Len(optimizations) < MaxOptimizations
             /\ optimizations' = Append(optimizations, row)
             /\ last' = Step("optimize", req, 200, OptimizeBody(body, token), NoCookie)
             /\ UNCHANGED <<users, pending, gridEnv>>

Optimize(body, token) ==
    LET req == [body |-> body, token |-> token]
    IN  IF PromptMissing(body)
        THEN /\ last' = Step("optimize", req, 400, Message("prompt required"), NoCookie)
             /\ UNCHANGED <<users, optimizations, pending, gridEnv>>
        ELSE /\ Len(optimizations) < MaxOptimizations
             /\ optimizations' = Append(optimizations, InsertedOptimization(body, token))
             /\ last' = Step("optimize", req, 200, OptimizeBody(body, token), NoCookie)
             /\ UNCHANGED <<users, pending, gridEnv>>

(***************************************************************************)
(* GET /api/stats                                                          *)
(***************************************************************************)
\* GRID_KGCO2_PER_KWH > 0 ? co2_saved_kg / GRID_KGCO2_PER_KWH : 0
EnergySavedKwh(co2_saved_kg) ==
    IF GRID_KGCO2_PER_KWH > 0 THEN Quotient(co2_saved_kg, GRID_KGCO2_PER_KWH)
    ELSE Quotient(0, 1)

\* co2_saved_kg * 1000 + prompts_optimized * 0.1 + users * 1, in units of
\* 1/(Resolution * 10^6)
ImpactScore(co2_saved_kg, prompts_optimized, nusers) ==
    co2_saved_kg + prompts_optimized * Resolution * 100000
                 + nusers * Resolution * 1000000

StatsBody ==
    LET nusers == CountRows(users)
        prompts_optimized == CountRows(optimizations)
        co2_saved_kg == SelectSumCo2
    IN  [users |-> nusers,
         co2_saved_kg |-> co2_saved_kg,
         co2_saved_g |-> co2_saved_kg * 1000,
         prompts_optimized |-> prompts_optimized,
         energy_saved_kwh |-> EnergySavedKwh(co2_saved_kg),
         impact_score |-> ImpactScore(co2_saved_kg, prompts_optimized, nusers)]

Stats ==
    /\ last' = Step("stats", Undefined, 200, StatsBody, NoCookie)
    /\ UNCHANGED <<users, optimizations, pending, gridEnv>>

(***************************************************************************)
(* The requests of the model.                                              *)
(***************************************************************************)
Rep(c, n) == [i \in 1..n |-> c]

EmailA == <<"a">>
EmailB == <<"b">>
PasswordP == <<"p">>
PasswordQ == <<"q">>

\* a request body with a field missing stands for every body without it
MissingFieldInputs ==
    {[email |-> Undefined, password |-> Str(PasswordP)],
     [email |-> Str(EmailA), password |-> Undefined]}

\* the bodies of signup requests: one email under two passwords, another email
SignupInputs ==
    {[email |-> Str(EmailA), password |-> Str(PasswordP)],
     [email |-> Str(EmailA), password |-> Str(PasswordQ)],
     [email |-> Str(EmailB), password |-> Str(PasswordP)]}
    \cup MissingFieldInputs

\* the bodies of login requests
LoginInputs ==
    {[email |-> Str(e), password |-> Str(p)] :
        e \in {EmailA, EmailB}, p \in {PasswordP, PasswordQ}}
    \cup MissingFieldInputs

\* no cookie, a cookie that is not a JWT, a JWT past its expiry, and a JWT
\* the secret signs (for a user that may or may not be in the table)
TokenInputs ==
    {NoToken,
     [kind |-> "malformed"],
     [kind |-> "expired", id |-> 1, email |-> EmailA],
     [kind |-> "valid", id |-> 1, email |-> EmailA]}

Body(prompt, optimized_prompt, tokens_before, tokens_after) ==
    [prompt |-> prompt, optimized_prompt |-> optimized_prompt,
     tokens_before |-> tokens_before, tokens_after |-> tokens_after]

\* 17 characters: 5 tokens
PromptLong == Rep("x", 17)
\* 5 characters: 2 tokens
PromptWords == Rep("x", 5)
\* " xx\t x ": 7 characters, 4 once normalised ("xx x"), 1 token
PromptSpaced == <<" ", "x", "x", "\t", " ", "x", " ">>
\* whitespace only: a prompt that is not empty, 0 tokens
PromptBlank == <<" ", "\t">>
\* 3 characters: 1 token
OptimizedShort == Rep("x", 3)
\* "x     ": 6 characters, 1 once normalised, 1 token
OptimizedPadded == <<"x">> \o Rep(" ", 5)
\* 9 characters: 3 tokens
OptimizedLong == Rep("x", 9)

\* the bodies of the server specification: a missing prompt with every other
\* field supplied, an empty prompt, a prompt alone, and what the client sends
ServerBodies ==
    {Body(Undefined, Str(OptimizedShort), Num(JsInt(5)), Num(JsInt(2))),
     Body(Str(<< >>), Undefined, Undefined, Undefined),
     Body(Str(PromptLong), Undefined, Undefined, Undefined),
     Body(Str(PromptLong), Str(OptimizedShort), Num(JsInt(5)), Num(JsInt(2)))}

(***************************************************************************)
(* The components as they are mounted.                                     *)
(***************************************************************************)
\* the useState initial values of OptimizeTab; no timer is set and no fetch
\* is in flight
OptimizeTabInit ==
    /\ messages = << >>
    /\ input = << >>
    /\ isTyping = FALSE
    /\ tokensBefore = JsInt(0)
    /\ tokensAfter = JsInt(0)
    /\ co2SavedKg = 0
    /\ triggerCount = FALSE
    /\ timers = << >>
    /\ resets = 0
    /\ requests = << >>

\* a load() that has called fetch and is suspended at `await fetch(...)`
LoadFetching == [at |-> "fetch"]

\* the useState initial values of StatsTab, after its effect ran: mounted
\* is true and the first load() is at its fetch
StatsTabInit ==
    /\ stats = [users |-> 0, co2_saved_kg |-> 0, prompts_optimized |-> 0,
                energy_saved_kwh |-> 0, impact_score |-> 0,
                tokens_saved |-> 0, miles_saved |-> 0]
    /\ loading = TRUE
    /\ mounted = TRUE
    /\ loads = <<LoadFetching>>

(***************************************************************************)
(* The server: every handler, under any interleaving of requests.          *)
(***************************************************************************)
Init ==
    /\ users = << >>
    /\ optimizations = << >>
    /\ pending = {}
    /\ last = Step("listen", Undefined, 0, Undefined, NoCookie)
    /\ gridEnv = Undefined
    /\ OptimizeTabInit
    /\ StatsTabInit

Next ==
    \/ \E r \in SignupInputs :
          SignupBegin(r.email, r.password) /\ UNCHANGED <<optimizeTab, statsTab>>
    \/ \E req \in pending :
          SignupFinish(req) /\ UNCHANGED <<optimizeTab, statsTab>>
    \/ \E r \in LoginInputs :
          Login(r.email, r.password) /\ UNCHANGED <<optimizeTab, statsTab>>
    \/ \E token \in TokenInputs :
          Me(token) /\ UNCHANGED <<optimizeTab, statsTab>>
    \/ Logout /\ UNCHANGED <<optimizeTab, statsTab>>
    \/ \E body \in ServerBodies, token \in TokenInputs :
          Optimize(body, token) /\ UNCHANGED <<optimizeTab, statsTab>>
    \/ Stats /\ UNCHANGED <<optimizeTab, statsTab>>
    \/ Health /\ UNCHANGED <<optimizeTab, statsTab>>

Spec == Init /\ [][Next]_vars

(***************************************************************************)
(* The savings pipeline: POST /api/optimize over a wider set of bodies and *)
(* GET /api/stats, for each setting of GRID_KGCO2_PER_KWH.  No user signs  *)
(* up, and every request is anonymous.                                     *)
(***************************************************************************)
\* GRID_KGCO2_PER_KWH=<n/100>
EnvText(centi) == [t |-> "string", centi |-> centi]

GridEnvInputs == {Undefined, EnvText(0), EnvText(90)}

\* the JavaScript number k + 1/Resolution: not an integer
JsFraction(k) == k * Resolution + 1

NumberInputs == {Num(JsInt(-1)), Num(JsInt(5)), Num(JsFraction(5))}

OptimizeBodies ==
    \* a prompt and nothing else
    {Body(p, Undefined, Undefined, Undefined) :
        p \in {Undefined, Str(<< >>), Str(PromptBlank), Str(PromptWords),
               Str(PromptSpaced), Str(PromptLong)}}
    \* a prompt and an optimized prompt
    \cup {Body(Str(PromptWords), Str(o), Undefined, Undefined) :
            o \in {<< >>, OptimizedShort, OptimizedPadded, OptimizedLong}}
    \* token counts from the client
    \cup {Body(Str(PromptWords), Str(OptimizedShort), tb, ta) :
            tb \in NumberInputs, ta \in {Undefined, Num(JsInt(2)), Num(JsInt(7))}}
    \cup {Body(Str(PromptWords), Str(OptimizedShort), Undefined, ta) :
            ta \in {Num(JsInt(2)), Num(JsInt(7))}}
    \* tokens_before from the client and no optimized prompt
    \cup {Body(Str(PromptWords), Undefined, tb, Undefined) : tb \in NumberInputs}
    \* no prompt, and every other field
    \cup {Body(Undefined, Str(OptimizedShort), Num(JsInt(5)), Num(JsInt(2)))}

InitOptimize ==
    /\ users = << >>
    /\ optimizations = << >>
    /\ pending = {}
    /\ last = Step("listen", Undefined, 0, Undefined, NoCookie)
    /\ gridEnv \in GridEnvInputs
    /\ OptimizeTabInit
    /\ StatsTabInit

NextOptimize ==
    \/ \E body \in OptimizeBodies :
          Optimize(body, NoToken) /\ UNCHANGED <<optimizeTab, statsTab>>
    \/ Stats /\ UNCHANGED <<optimizeTab, statsTab>>

SpecOptimize == InitOptimize /\ [][NextOptimize]_vars

(***************************************************************************)
(* OptimizeTab: the heuristic of handleSend.  The prompts of the model are *)
(* written in letters, " ", "\t" and ".".                                  *)
(***************************************************************************)
\* the characters \w matches
IsWordChar(c) == ~IsSpace(c) /\ c # "."

\* the flag i of the regular expression: of the letters of the model's
\* prompts, "A" is the capital
LowerCase(s) == [i \in 1..Len(s) |-> IF s[i] = "A" THEN "a" ELSE s[i]]

\* (the|and|a|an|that|please|kindly|just)
FillerWords ==
    {<<"t", "h", "e">>, <<"a", "n", "d">>, <<"a">>, <<"a", "n">>,
     <<"t", "h", "a", "t">>, <<"p", "l", "e", "a", "s", "e">>,
     <<"k", "i", "n", "d", "l", "y">>, <<"j", "u", "s", "t">>}

\* the length of the run of word characters s starts with
RECURSIVE WordLength(_)
WordLength(s) ==
    IF s # << >> /\ IsWordChar(Head(s)) THEN 1 + WordLength(Tail(s)) ELSE 0

\* input.replace(/\b(the|and|a|an|that|please|kindly|just)\b/gi, ""): \b on
\* both sides of an alternative made of word characters matches a whole
\* run of word characters; s starts at the start of the text or after a
\* character that is not a word character
RECURSIVE StripFillerWords(_)
StripFillerWords(s) ==
    IF s = << >> THEN << >>
    ELSE IF ~IsWordChar(Head(s)) THEN <<Head(s)>> \o StripFillerWords(Tail(s))
    ELSE LET n == WordLength(s)
             word == SubSeq(s, 1, n)
         IN  (IF LowerCase(word) \in FillerWords THEN << >> ELSE word)
                \o StripFillerWords(SubSeq(s, n + 1, Len(s)))

\* the text `optimized` of the timer's callback
Optimized(text) ==
    LET optimized == Trim(ReplaceWhitespace(StripFillerWords(text)))
        originalLen == Len(optimized)
        targetLen == Max(MinTargetLen, (originalLen * KeepPercent) \div 100)
    IN  IF Len(optimized) > targetLen
        THEN Trim(SubSeq(optimized, 1, targetLen))
        ELSE optimized

(***************************************************************************)
(* OptimizeTab: the text field, handleSend, its timers and its fetch.      *)
(***************************************************************************)
\* const KWH_PER_TOKEN = 0.0003 / 1000, in units of 10^-7 kWh
KWH_PER_TOKEN == KwhPerTokenE7

\* process.env.REACT_APP_GRID_KGCO2_PER_KWH of the build: not set
ReactAppGridEnv == Undefined

\* parseFloat(process.env.REACT_APP_GRID_KGCO2_PER_KWH) || 0.45, in hundredths
REACT_APP_GRID_KGCO2_PER_KWH ==
    LET parsed == ParseFloatEnv(ReactAppGridEnv)
    IN  IF Falsy(parsed) THEN DefaultGridCenti ELSE parsed.v

\* the texts of the bot's messages: a fixed text is one symbol of the
\* sequence
AlreadyOptimalText == <<"Your prompt is already optimal!">>

SuggestionText(optimized) == <<"Optimized Suggestion: ">> \o optimized

\* the sequence s without its i-th element
Remove(s, i) == SubSeq(s, 1, i - 1) \o SubSeq(s, i + 1, Len(s))

\* onChange={(e) => setInput(e.target.value)}
onChange(text) ==
    /\ input' = text
    /\ UNCHANGED <<messages, isTyping, tokensBefore, tokensAfter, co2SavedKg,
                   triggerCount, timers, resets, requests>>
    /\ UNCHANGED <<server, statsTab>>

\* handleSend up to its setTimeout; the chat of the model holds at most
\* MaxMessages messages, with the answers that are still to come
handleSend ==
    IF Len(Trim(input)) = 0
    THEN UNCHANGED vars
    ELSE LET tb == estimateTokens(Str(input))
         IN  /\ Len(messages) + Len(timers) + 2 <= MaxMessages
             /\ messages' = Append(messages, [text |-> input, sender |-> "user"])
             /\ tokensBefore' = tb
             /\ input' = << >>
             /\ isTyping' = TRUE
             /\ timers' = Append(timers, [input |-> input, tb |-> tb])
             /\ UNCHANGED <<tokensAfter, co2SavedKg, triggerCount, resets, requests>>
             /\ UNCHANGED <<server, statsTab>>

\* a test that never takes a prompt for optimal
NeverOptimal(tb, ta) == FALSE

\* if (tb === ta)
AlreadyOptimal(tb, ta) == tb = ta

\* the callback of handleSend's setTimeout, up to its `await fetch`: the
\* delays are random, and a timer set later may be due earlier
SendTimeout(i) ==
    LET timer == timers[i]
        optimized == Optimized(timer.input)
        ta == estimateTokens(Str(optimized))
        tokensSaved == Max(0, timer.tb - ta)
        kwhSaved == tokensSaved * KWH_PER_TOKEN
        co2Kg == kwhSaved * REACT_APP_GRID_KGCO2_PER_KWH
    IN  /\ timers' = Remove(timers, i)
        /\ isTyping' = FALSE
        /\ IF AlreadyOptimal(timer.tb, ta)
           THEN /\ messages' = Append(messages, [text |-> AlreadyOptimalText, sender |-> "bot"])
                /\ UNCHANGED <<tokensAfter, co2SavedKg, triggerCount, resets, requests>>
           ELSE /\ tokensAfter' = ta
                /\ co2SavedKg' = co2Kg
                /\ triggerCount' = TRUE
                /\ resets' = resets + 1
                /\ messages' = Append(messages, [text |-> SuggestionText(optimized), sender |-> "bot"])
                /\ requests' = Append(requests,
                                  Body(Str(timer.input), Str(optimized), Num(timer.tb), Num(ta)))
        /\ UNCHANGED <<input, tokensBefore>>
        /\ UNCHANGED <<server, statsTab>>

\* setTimeout(() => setTriggerCount(false), 1200)
ResetTimeout ==
    /\ resets > 0
    /\ resets' = resets - 1
    /\ triggerCount' = FALSE
    /\ UNCHANGED <<messages, input, isTyping, tokensBefore, tokensAfter, co2SavedKg,
                   timers, requests>>
    /\ UNCHANGED <<server, statsTab>>

\* the server handles one of the fetches in flight; the browser sends no
\* token cookie, since nobody logged in.  The callback dispatches
\* "stats-updated" and ends.
FetchOptimize(i) ==
    /\ Optimize(requests[i], NoToken)
    /\ requests' = Remove(requests, i)
    /\ UNCHANGED <<messages, input, isTyping, tokensBefore, tokensAfter, co2SavedKg,
                   triggerCount, timers, resets>>
    /\ UNCHANGED statsTab

\* the fetch rejects without reaching the server: catch (err) { console.warn(...) }
FetchOptimizeRejects(i) ==
    /\ requests' = Remove(requests, i)
    /\ UNCHANGED <<messages, input, isTyping, tokensBefore, tokensAfter, co2SavedKg,
                   triggerCount, timers, resets>>
    /\ UNCHANGED <<server, statsTab>>

\* what the user types
PromptOptimal == Rep("x", 4)
PromptFiller == <<"a", " ", "x", "x", "x", "x">>
PromptCapital == <<"A", " ", "x", "x">>
PromptOnlyFiller == <<"t", "h", "e">>
PromptPunctuated == <<"x", "a", ".", "a", "n">>
PromptTruncated == Rep("x", 14)

TypedTexts ==
    {PromptBlank, PromptOptimal, PromptFiller, PromptCapital, PromptOnlyFiller,
     PromptPunctuated, PromptTruncated}

InitOptimizeTab ==
    /\ users = << >>
    /\ optimizations = << >>
    /\ pending = {}
    /\ last = Step("listen", Undefined, 0, Undefined, NoCookie)
    /\ gridEnv = Undefined
    /\ OptimizeTabInit
    /\ StatsTabInit

NextOptimizeTab ==
    \/ \E text \in TypedTexts : onChange(text)
    \/ handleSend
    \/ \E i \in 1..Len(timers) : SendTimeout(i)
    \/ ResetTimeout
    \/ \E i \in 1..Len(requests) : FetchOptimize(i)
    \/ \E i \in 1..Len(requests) : FetchOptimizeRejects(i)

SpecOptimizeTab == InitOptimizeTab /\ [][NextOptimizeTab]_vars

(***************************************************************************)
(* StatsTab: load(), called by the effect and by its 10 s interval, and    *)
(* the effect's cleanup.                                                   *)
(***************************************************************************)
\* the catch of GET /api/stats, when a statement throws
StatsThrows ==
    /\ last' = Step("stats", Undefined, 500, Message("Server error"), NoCookie)
    /\ UNCHANGED <<users, optimizations, pending, gridEnv>>

\* a load() suspended at `await res.json()`, and the body it will get
LoadParsing(data) == [at |-> "json", data |-> data]

\* setInterval(load, 10000): a tick, until the cleanup clears the interval
IntervalLoad ==
    /\ mounted
    /\ Len(loads) < MaxLoads
    /\ loads' = Append(loads, LoadFetching)
    /\ UNCHANGED <<stats, loading, mounted>>
    /\ UNCHANGED <<server, optimizeTab>>

\* finally { if (mounted) setLoading(false); }
LoadFinally == loading' = IF mounted THEN FALSE ELSE loading

\* the server answers the fetch of a load() with 200: res.ok, and load()
\* goes on to `await res.json()`
FetchStats(i) ==
    /\ loads[i].at = "fetch"
    /\ Stats
    /\ loads' = [loads EXCEPT ![i] = LoadParsing(StatsBody)]
    /\ UNCHANGED <<stats, loading, mounted>>
    /\ UNCHANGED optimizeTab

\* the server answers the fetch of a load() with 500: !res.ok, throw, catch
FetchStatsNotOk(i) ==
    /\ loads[i].at = "fetch"
    /\ StatsThrows
    /\ loads' = Remove(loads, i)
    /\ LoadFinally
    /\ UNCHANGED <<stats, mounted>>
    /\ UNCHANGED optimizeTab

\* the fetch of a load() rejects without reaching the server: catch
FetchStatsRejects(i) ==
    /\ loads[i].at = "fetch"
    /\ loads' = Remove(loads, i)
    /\ LoadFinally
    /\ UNCHANGED <<stats, mounted>>
    /\ UNCHANGED <<server, optimizeTab>>

\* if (mounted) setStats(data)
StoreStats(data) == IF mounted THEN data ELSE stats

\* `await res.json()` resolves
ResJson(i) ==
    /\ loads[i].at = "json"
    /\ stats' = StoreStats(loads[i].data)
    /\ loads' = Remove(loads, i)
    /\ LoadFinally
    /\ UNCHANGED mounted
    /\ UNCHANGED <<server, optimizeTab>>

\* the cleanup of the effect: mounted = false; clearInterval(iv)
Unmount ==
    /\ mounted
    /\ mounted' = FALSE
    /\ UNCHANGED <<stats, loading, loads>>
    /\ UNCHANGED <<server, optimizeTab>>

\* the POST /api/optimize requests of other browsers while StatsTab polls
OtherBodies ==
    {Body(Str(PromptLong), Undefined, Undefined, Undefined),
     Body(Str(PromptLong), Str(OptimizedShort), Num(JsInt(5)), Num(JsInt(2)))}

InitStatsTab ==
    /\ users = << >>
    /\ optimizations = << >>
    /\ pending = {}
    /\ last = Step("listen", Undefined, 0, Undefined, NoCookie)
    /\ gridEnv = Undefined
    /\ OptimizeTabInit
    /\ StatsTabInit

NextStatsTab ==
    \/ IntervalLoad
    \/ \E i \in 1..Len(loads) : FetchStats(i)
    \/ \E i \in 1..Len(loads) : FetchStatsNotOk(i)
    \/ \E i \in 1..Len(loads) : FetchStatsRejects(i)
    \/ \E i \in 1..Len(loads) : ResJson(i)
    \/ Unmount
    \/ \E body \in OtherBodies :
          Optimize(body, NoToken) /\ UNCHANGED <<optimizeTab, statsTab>>

SpecStatsTab == InitStatsTab /\ [][NextStatsTab]_vars

(***************************************************************************)
(* Properties.                                                             *)
(***************************************************************************)
\* the emails of the users table
RegisteredEmails == {users[i].email : i \in 1..Len(users)}

\* the request carries an email and a password
HasCredentials(req) ==
    /\ req.email.t = "string" /\ Len(req.email.v) > 0
    /\ req.password.t = "string" /\ Len(req.password.v) > 0

\* C1: a signup step whose request names an email that is in the users table
\* when it arrives leaves the users table as it was (no row added, no row's
\* id, email or password_hash changed), and is answered 409 when the request
\* carries a password (a body without one is answered 400 before the
\* lookup).  This holds in every reachable state, whatever requests came
\* before.
C1_DuplicateSignupConflict ==
    [][(/\ last'.op = "signup"
        /\ last'.req.email.t = "string"
        /\ last'.req.email.v \in RegisteredEmails)
       => /\ users' = users
          /\ HasCredentials(last'.req) => last'.status = 409]_vars

\* a duplicate signup under another password than the stored one was answered
\* 409, after an optimization was recorded
C1_Witness ==
    /\ last.op = "signup"
    /\ last.status = 409
    /\ Len(optimizations) > 0
    /\ \E i \in 1..Len(users) :
          /\ users[i].email = last.req.email.v
          /\ users[i].password_hash # BcryptHash(last.req.password.v)

ClampedDifference(a, b) == IF a - b > 0 THEN a - b ELSE 0

\* the step just taken answered a POST /api/optimize with 200
OptimizeAnswered == last.op = "optimize" /\ last.status = 200

\* C3: in every reachable state every row of optimizations has tokens_saved
\* = max(0, tokens_before - tokens_after), has tokens_saved = 0 and
\* co2_saved_kg = 0 when tokens_after > tokens_before, and the optimize
\* response just sent carries the values of the row it stored.
C3_TokensSavedClamped ==
    /\ \A i \in 1..Len(optimizations) :
          LET row == optimizations[i]
          IN  /\ row.tokens_saved.v = ClampedDifference(row.tokens_before.v, row.tokens_after.v)
              /\ row.tokens_after.v > row.tokens_before.v
                 => (row.tokens_saved.v = 0 /\ row.co2_saved_kg.v = 0)
    /\ OptimizeAnswered
       => /\ last.body.id \in 1..Len(optimizations)
          /\ LET row == optimizations[last.body.id]
             IN  /\ row.id = last.body.id
                 /\ row.tokens_before.v = last.body.tokens_before
                 /\ row.tokens_after.v = last.body.tokens_after
                 /\ row.tokens_saved.v = last.body.tokens_saved
                 /\ row.co2_saved_kg.v = last.body.co2_saved_kg

\* a row whose tokens_after exceeds its tokens_before beside a row with a
\* saving, one with client counts and one with estimated counts
C3_Witness ==
    /\ OptimizeAnswered
    /\ IsNumber(last.req.body.tokens_before)
    /\ last.body.tokens_after > last.body.tokens_before
    /\ last.body.tokens_saved = 0
    /\ \E i \in 1..Len(optimizations) :
          /\ optimizations[i].tokens_saved.v > 0
          /\ optimizations[i].co2_saved_kg.v > 0
          /\ optimizations[i].tokens_before.v = estimateTokens(Str(optimizations[i].prompt))

\* C4: in every reachable state every row of optimizations has tokens_before
\* and tokens_after that are non-negative integers.
C4_TokenCountsNonNegativeIntegers ==
    \A i \in 1..Len(optimizations) :
        /\ optimizations[i].tokens_before.cls = "INTEGER"
        /\ optimizations[i].tokens_before.v >= 0
        /\ optimizations[i].tokens_after.cls = "INTEGER"
        /\ optimizations[i].tokens_after.v >= 0

RECURSIVE SumOfCo2(_)
SumOfCo2(rows) ==
    IF rows = << >> THEN 0 ELSE Head(rows).co2_saved_kg.v + SumOfCo2(Tail(rows))

\* C5: a GET /api/stats step answers with co2_saved_kg = the sum of
\* co2_saved_kg over the rows of optimizations (0 for none) and leaves both
\* tables as they were; and a step of any handler that leaves both tables as
\* they were leaves the answer of GET /api/stats as it was, so two stats
\* requests with no write between them are answered alike.
C5_StatsSumAndPureRead ==
    [][/\ last'.op = "stats"
          => /\ users' = users
             /\ optimizations' = optimizations
             /\ last'.status = 200
             /\ last'.body.co2_saved_kg = SumOfCo2(optimizations)
             /\ (last.op = "stats" => last'.body = last.body)
       /\ (users' = users /\ optimizations' = optimizations)
          => StatsBody' = StatsBody]_vars

\* stats answered over two rows of different savings, one of them anonymous
C5_Witness ==
    /\ last.op = "stats"
    /\ Len(optimizations) = 2
    /\ optimizations[1].co2_saved_kg.v # optimizations[2].co2_saved_kg.v
    /\ optimizations[1].user_id = Null
    /\ optimizations[2].user_id # Null
    /\ last.body.co2_saved_kg > 0

\* C6: a POST /api/optimize step whose body has no prompt, or an empty one,
\* is answered 400 and leaves both tables as they were, whatever the other
\* fields of the body.
C6_MissingPromptRejected ==
    [][(/\ last'.op = "optimize"
        /\ \/ last'.req.body.prompt = Undefined
           \/ last'.req.body.prompt = Str(<< >>))
       => /\ last'.status = 400
          /\ optimizations' = optimizations
          /\ users' = users]_vars

\* a body with no prompt and every other field was answered 400 with a row
\* and a user stored
C6_Witness ==
    /\ last.op = "optimize"
    /\ last.status = 400
    /\ last.req.body.prompt = Undefined
    /\ IsNumber(last.req.body.tokens_before)
    /\ IsNumber(last.req.body.tokens_after)
    /\ last.req.body.optimized_prompt # Undefined
    /\ Len(optimizations) > 0
    /\ Len(users) > 0

\* the token is a JWT that verifies and names a row of users
TokenNamesUser(token) ==
    /\ token.kind = "valid"
    /\ \E i \in 1..Len(users) : users[i].id = token.id

\* C7: a token that is absent, malformed, expired or names no row of users
\* is no user and no error: GET /api/auth/me answers 200 {user: null}, POST
\* /api/optimize with a prompt answers 200 and stores the row with user_id
\* null; a row carries a user_id only when the token of its request verifies
\* and names a user, and then it is that user's id.
C7_BadTokenIsAnonymous ==
    /\ (last.op = "me" /\ ~TokenNamesUser(last.req.token))
       => (last.status = 200 /\ last.body = [user |-> Null])
    /\ (last.op = "optimize" /\ ~Falsy(last.req.body.prompt)
                             /\ ~TokenNamesUser(last.req.token))
       => /\ last.status = 200
          /\ last.body.user_id = Null
          /\ optimizations[last.body.id].user_id = Null
    /\ (OptimizeAnswered /\ optimizations[last.body.id].user_id # Null)
       => /\ TokenNamesUser(last.req.token)
          /\ optimizations[last.body.id].user_id.v = last.req.token.id
    /\ \A i \in 1..Len(optimizations) :
          optimizations[i].user_id # Null
          => \E j \in 1..Len(users) : users[j].id = optimizations[i].user_id.v

\* an optimize under an expired token of a user who is in the table stored an
\* anonymous row, after a row of that user
C7_Witness ==
    /\ OptimizeAnswered
    /\ last.req.token.kind = "expired"
    /\ \E j \in 1..Len(users) : users[j].id = last.req.token.id
    /\ optimizations[last.body.id].user_id = Null
    /\ \E i \in 1..Len(optimizations) : optimizations[i].user_id # Null

\* C8: no step removes or changes a row of optimizations; a POST
\* /api/optimize answered 200 adds exactly one row, under an id no row had,
\* also when the same body was stored before; no other step adds a row.
C8_OptimizationsAppendOnly ==
    [][/\ Len(optimizations') >= Len(optimizations)
       /\ \A i \in 1..Len(optimizations) : optimizations'[i] = optimizations[i]
       /\ (last'.op = "optimize" /\ last'.status = 200)
          => /\ Len(optimizations') = Len(optimizations) + 1
             /\ optimizations'[Len(optimizations')].id = last'.body.id
             /\ \A i \in 1..Len(optimizations) : optimizations[i].id # last'.body.id
       /\ ~(last'.op = "optimize" /\ last'.status = 200)
          => optimizations' = optimizations]_vars

\* the same body was stored twice, under two ids
C8_Witness ==
    /\ OptimizeAnswered
    /\ Len(optimizations) = 2
    /\ optimizations[1].id # optimizations[2].id
    /\ [optimizations[2] EXCEPT !.id = optimizations[1].id] = optimizations[1]

\* the length of a text once each run of whitespace counts as one character
\* and the runs at its ends as none: its other characters, and one for each
\* gap between two words
NormalisedLength(s) ==
    LET Blank(i) == s[i] \in {" ", "\t"}
        others == {i \in 1..Len(s) : ~Blank(i)}
        starts == {i \in others : i = 1 \/ Blank(i - 1)}
    IN  Cardinality(others) + (IF starts = {} THEN 0 ELSE Cardinality(starts) - 1)

\* the estimate as the specification words it: 0 for an empty result,
\* otherwise ceil(length / 4), at least 1
EstimateOfLength(n) ==
    IF n = 0 THEN 0
    ELSE LET c == CHOOSE k \in 0..n : 4 * k >= n /\ 4 * (k - 1) < n
         IN  IF c < 1 THEN 1 ELSE c

\* the step just taken answered 200 to a POST /api/optimize that carried a
\* prompt and no token counts
EstimatedOptimizeAnswered ==
    /\ OptimizeAnswered
    /\ ~IsNumber(last.req.body.tokens_before)
    /\ ~IsNumber(last.req.body.tokens_after)

\* C9 as stated: for a request with a prompt and no token counts,
\* tokens_before is the estimate of the prompt, and tokens_saved is positive
\* only if the optimized_prompt, when the body has one, has fewer characters
\* than the prompt.
C9_PositiveSavingOnlyIfShorter ==
    EstimatedOptimizeAnswered
    => /\ last.body.tokens_before
            = JsInt(EstimateOfLength(NormalisedLength(last.req.body.prompt.v)))
       /\ (last.body.tokens_saved > 0 /\ last.req.body.optimized_prompt # Undefined)
          => Len(last.req.body.optimized_prompt.v) < Len(last.req.body.prompt.v)

\* C9, amended: for a request with a prompt and no token counts,
\* tokens_before is the estimate of the prompt, and tokens_saved is positive
\* only if the optimized_prompt, when the body has one, is shorter than the
\* prompt once both have their whitespace runs collapsed and their ends
\* trimmed.
C9_PositiveSavingOnlyIfShorterNormalised ==
    EstimatedOptimizeAnswered
    => /\ last.body.tokens_before
            = JsInt(EstimateOfLength(NormalisedLength(last.req.body.prompt.v)))
       /\ (last.body.tokens_saved > 0 /\ last.req.body.optimized_prompt # Undefined)
          => NormalisedLength(last.req.body.optimized_prompt.v)
                < NormalisedLength(last.req.body.prompt.v)

\* a prompt with whitespace runs had its tokens estimated, after a request
\* whose optimized prompt has more characters than its prompt saved a token
C9_Witness ==
    /\ EstimatedOptimizeAnswered
    /\ NormalisedLength(last.req.body.prompt.v) < Len(last.req.body.prompt.v)
    /\ last.body.tokens_before > 0
    /\ \E i \in 1..Len(optimizations) :
          /\ optimizations[i].tokens_saved.v > 0
          /\ Len(optimizations[i].optimized_prompt) > Len(optimizations[i].prompt)

\* the grid intensity the environment configures, in hundredths: the
\* default when the variable is unset
ConfiguredGridIntensity ==
    IF gridEnv = Undefined THEN DefaultGridCenti ELSE gridEnv.centi

\* C10: GET /api/stats answers energy_saved_kwh = co2_saved_kg /
\* grid_intensity for the configured grid intensity, and energy_saved_kwh =
\* 0 when the configured grid intensity is 0.
C10_EnergyFromConfiguredIntensity ==
    last.op = "stats"
    => IF ConfiguredGridIntensity = 0
       THEN last.body.energy_saved_kwh.num = 0
       ELSE last.body.energy_saved_kwh.num * ConfiguredGridIntensity
               = last.body.co2_saved_kg * last.body.energy_saved_kwh.den

\* the heuristic's output for the prompt has the estimate of the prompt
SameEstimate(prompt) ==
    estimateTokens(Str(Optimized(prompt))) = estimateTokens(Str(prompt))

\* the number of elements of s that satisfy Test
CountOf(s, Test(_)) == Cardinality({i \in 1..Len(s) : Test(s[i])})

SentOptimal(message) == message.sender = "user" /\ SameEstimate(message.text)

SentShortened(message) == message.sender = "user" /\ ~SameEstimate(message.text)

ReportedOptimal(message) == message.sender = "bot" /\ message.text = AlreadyOptimalText

TimerOfOptimal(timer) == SameEstimate(timer.input)

TimerOfShortened(timer) == ~SameEstimate(timer.input)

\* C11: in every reachable state of OptimizeTab and the server, each send
\* whose timer has fired on a prompt with tb = ta has put one "already
\* optimal" message in the chat and no send of such a prompt has a request
\* in flight or a row in optimizations; there are no more requests sent
\* than timers that fired on a prompt with tb # ta; and every request in
\* flight and every row written carries tokens_after < tokens_before.
C11_RequestOnlyWhenTokensSaved ==
    /\ CountOf(messages, ReportedOptimal)
          = CountOf(messages, SentOptimal) - CountOf(timers, TimerOfOptimal)
    /\ Len(requests) + Len(optimizations)
          <= CountOf(messages, SentShortened) - CountOf(timers, TimerOfShortened)
    /\ \A i \in 1..Len(requests) :
          /\ ~SameEstimate(requests[i].prompt.v)
          /\ requests[i].tokens_before.v = estimateTokens(requests[i].prompt)
          /\ requests[i].tokens_after.v < requests[i].tokens_before.v
    /\ \A i \in 1..Len(optimizations) :
          /\ ~SameEstimate(optimizations[i].prompt)
          /\ optimizations[i].tokens_after.v < optimizations[i].tokens_before.v

\* a prompt the heuristic rewrote without saving a token was reported
\* optimal, after a truncated prompt was recorded by the server, and nothing
\* is pending
C11_Witness ==
    /\ timers = << >>
    /\ requests = << >>
    /\ Len(messages) = 4
    /\ messages[3].text = PromptCapital
    /\ Optimized(PromptCapital) # PromptCapital
    /\ messages[4].text = AlreadyOptimalText
    /\ Len(optimizations) = 1
    /\ optimizations[1].prompt = PromptTruncated
    /\ Len(optimizations[1].optimized_prompt) = MinTargetLen

\* C12: under any interleaving of signup requests the users table never holds
\* two rows with the same email, and a signup that resumes after the password
\* hash either succeeds (200) or is answered 409, never another status.
C12_RacingSignupsConflict ==
    /\ \A i, j \in 1..Len(users) : users[i].email = users[j].email => i = j
    /\ last.op = "signup-resumed" => last.status \in {200, 409}

\* floor(0.2 * tb) for tb >= 0: the greatest integer that is at most tb / 5
FloorOfFifth(tb) ==
    JsInt(CHOOSE k \in 0..tb :
             /\ 5 * JsInt(k) <= tb
             /\ tb < 5 * JsInt(k + 1))

\* C13: the optimize response just sent, and the row it stored, have: when
\* the request carries no numeric tokens_after and no or an empty
\* optimized_prompt, and tokens_before is not negative, tokens_after =
\* tokens_before - floor(0.2 * tokens_before) and tokens_saved = floor(0.2 *
\* tokens_before); when it carries a non-empty optimized_prompt and no
\* numeric tokens_after, tokens_after = estimate(optimized_prompt); when it
\* carries a numeric tokens_after, that number.
C13_TokensAfterFallback ==
    OptimizeAnswered
    => LET body == last.req.body
           tb == last.body.tokens_before
           row == optimizations[last.body.id]
       IN  /\ row.tokens_after.v = last.body.tokens_after
           /\ row.tokens_saved.v = last.body.tokens_saved
           /\ IF IsNumber(body.tokens_after)
              THEN last.body.tokens_after = body.tokens_after.v
              ELSE IF body.optimized_prompt.t = "string" /\ Len(body.optimized_prompt.v) > 0
              THEN last.body.tokens_after = estimateTokens(body.optimized_prompt)
              ELSE tb >= 0
                   => /\ last.body.tokens_after = tb - FloorOfFifth(tb)
                      /\ last.body.tokens_after >= 0
                      /\ last.body.tokens_saved = FloorOfFifth(tb)

\* a request with an empty optimized_prompt kept all of its tokens, after a
\* request with a fractional tokens_before and no optimized_prompt saved a
\* fifth of them, rounded down
C13_Witness ==
    /\ OptimizeAnswered
    /\ last.req.body.optimized_prompt = Str(<< >>)
    /\ ~IsNumber(last.req.body.tokens_after)
    /\ last.body.tokens_before > 0
    /\ last.body.tokens_saved = 0
    /\ Len(optimizations) = 2
    /\ optimizations[1].optimized_prompt = << >>
    /\ optimizations[1].tokens_before.v = JsFraction(5)
    /\ optimizations[1].tokens_saved.v = JsInt(1)

\* C14: in every reachable state of OptimizeTab, isTyping is true exactly
\* when a timer of handleSend is pending, and when none is pending the
\* counters are those of one prompt: tokensAfter <= tokensBefore, and
\* co2SavedKg is the CO2 of tokensBefore - tokensAfter tokens.
C14_CountersOfOnePrompt ==
    /\ isTyping <=> timers # << >>
    /\ timers = << >>
       => /\ tokensAfter <= tokensBefore
          /\ co2SavedKg = (tokensBefore - tokensAfter) * KWH_PER_TOKEN
                             * REACT_APP_GRID_KGCO2_PER_KWH

\* the fields of stats the view of StatsTab reads a number from
RenderedFields ==
    {"users", "co2_saved_kg", "prompts_optimized", "energy_saved_kwh",
     "impact_score", "tokens_saved", "miles_saved"}

\* C15: every step of StatsTab leaves a stats state that has a number in
\* every field the view renders, and a step taken after the cleanup of the
\* effect leaves stats and loading as they were.
C15_StatsFieldsNumeric ==
    [][/\ RenderedFields \subseteq DOMAIN stats'
       /\ ~mounted => UNCHANGED <<stats, loading>>]_vars

====
